---- MODULE Spec2Model ----
(***************************************************************************)
(* A model of epg_merger.py: parse_source's time frame, the per-feed loop  *)
(* of main() with download_file and process_epgsource, the final sort and  *)
(* the merged document.                                                    *)
(*                                                                         *)
(* Strings are sequences of code points, so that str.lower(), the          *)
(* lexicographic comparison used by sorted() and strptime's reading of a   *)
(* timestamp are computed, not assumed.                                    *)
(***************************************************************************)
EXTENDS Integers, Sequences, FiniteSets, TLC

VARIABLES
    pc,                   \* where main() is: start, loop, done, crashed, reextracted
    first_line,           \* first line of the source file (code points)
    info_source,          \* parse_source's data_source: sequence of [channel_list]
    time_frame,           \* parse_source's time_frame
    idx,                  \* position of the feed loop in info_source
    processed_channels,   \* main: processed_channels
    channel_section_xml,  \* main: channel_section_xml
    programm_section_xml, \* main: programm_section_xml
    log,                  \* history: per handled feed, what happened to it
    root,                 \* children of the <tv> element written to epg.xml
    reextract             \* process_epgsource run on the merged document

vars == <<pc, first_line, info_source, time_frame, idx, processed_channels,
          channel_section_xml, programm_section_xml, log, root, reextract>>

----------------------------------------------------------------------------
\* Bounds of the model.

\* feeds in the source list
MaxFeeds == 2
\* channel and programme elements in all feed documents of one run
MaxElems == 3
\* programme elements of the feed in the single-feed specification
MaxProgs == 2
\* characters of the first line in the parse_source specification
MaxLineLen == 3

----------------------------------------------------------------------------
\* Strings.  A character is its code point; the tables below are those of
\* the Unicode database the interpreter (CPython 3.11) carries.

Min(a, b) == IF a < b THEN a ELSE b

\* The character at index p of s, -1 outside s.
At(s, p) == IF p >= 1 /\ p <= Len(s) THEN s[p] ELSE 0 - 1

InRanges(c, ranges) == \E r \in ranges : r[1] <= c /\ c <= r[2]

\* The characters str.isspace() is true of: what str.strip() removes and
\* what '\s' of the re module matches.
WhiteSpaceRanges ==
    { <<9, 13>>, <<28, 32>>, <<133, 133>>, <<160, 160>>, <<5760, 5760>>, <<8192, 8202>>,
      <<8232, 8233>>, <<8239, 8239>>, <<8287, 8287>>, <<12288, 12288>> }

IsSpace(c) == InRanges(c, WhiteSpaceRanges)

\* The zero of every run of ten decimal digits (category Nd): what int()
\* accepts as a digit and what '\d' of the re module matches.
DecimalZeros ==
    { 48, 1632, 1776, 1984, 2406, 2534, 2662, 2790, 2918,
      3046, 3174, 3302, 3430, 3558, 3664, 3792, 3872, 4160,
      4240, 6112, 6160, 6470, 6608, 6784, 6800, 6992, 7088,
      7232, 7248, 42528, 43216, 43264, 43472, 43504, 43600, 44016,
      65296, 66720, 68912, 69734, 69872, 69942, 70096, 70384, 70736,
      70864, 71248, 71360, 71472, 71904, 72016, 72784, 73040, 73120,
      92768, 92864, 93008, 120782, 120792, 120802, 120812, 120822, 123200,
      123632, 125264, 130032 }

IsDigit(c) ==
    IF c < 128 THEN c \in 48..57
    ELSE \E z \in DecimalZeros : c >= z /\ c <= z + 9

\* The value int() gives a decimal digit.
DigitVal(c) ==
    IF c < 128 THEN c - 48
    ELSE c - (CHOOSE z \in DecimalZeros : c >= z /\ c <= z + 9)

\* The one-to-one lower-case mappings: <<first, last, step, offset>> sends
\* every step-th character from first to last to itself plus offset.
LowerRanges ==
    { <<65, 90, 1, 32>>, <<192, 214, 1, 32>>, <<216, 222, 1, 32>>, <<256, 302, 2, 1>>,
      <<306, 310, 2, 1>>, <<313, 327, 2, 1>>, <<330, 374, 2, 1>>, <<376, 376, 1, -121>>,
      <<377, 381, 2, 1>>, <<385, 385, 1, 210>>, <<386, 388, 2, 1>>, <<390, 390, 1, 206>>,
      <<391, 391, 1, 1>>, <<393, 394, 1, 205>>, <<395, 395, 1, 1>>, <<398, 398, 1, 79>>,
      <<399, 399, 1, 202>>, <<400, 400, 1, 203>>, <<401, 401, 1, 1>>, <<403, 403, 1, 205>>,
      <<404, 404, 1, 207>>, <<406, 406, 1, 211>>, <<407, 407, 1, 209>>, <<408, 408, 1, 1>>,
      <<412, 412, 1, 211>>, <<413, 413, 1, 213>>, <<415, 415, 1, 214>>, <<416, 420, 2, 1>>,
      <<422, 422, 1, 218>>, <<423, 423, 1, 1>>, <<425, 425, 1, 218>>, <<428, 428, 1, 1>>,
      <<430, 430, 1, 218>>, <<431, 431, 1, 1>>, <<433, 434, 1, 217>>, <<435, 437, 2, 1>>,
      <<439, 439, 1, 219>>, <<440, 440, 1, 1>>, <<444, 444, 1, 1>>, <<452, 452, 1, 2>>,
      <<453, 453, 1, 1>>, <<455, 455, 1, 2>>, <<456, 456, 1, 1>>, <<458, 458, 1, 2>>,
      <<459, 475, 2, 1>>, <<478, 494, 2, 1>>, <<497, 497, 1, 2>>, <<498, 500, 2, 1>>,
      <<502, 502, 1, -97>>, <<503, 503, 1, -56>>, <<504, 542, 2, 1>>, <<544, 544, 1, -130>>,
      <<546, 562, 2, 1>>, <<570, 570, 1, 10795>>, <<571, 571, 1, 1>>, <<573, 573, 1, -163>>,
      <<574, 574, 1, 10792>>, <<577, 577, 1, 1>>, <<579, 579, 1, -195>>, <<580, 580, 1, 69>>,
      <<581, 581, 1, 71>>, <<582, 590, 2, 1>>, <<880, 882, 2, 1>>, <<886, 886, 1, 1>>,
      <<895, 895, 1, 116>>, <<902, 902, 1, 38>>, <<904, 906, 1, 37>>, <<908, 908, 1, 64>>,
      <<910, 911, 1, 63>>, <<913, 929, 1, 32>>, <<931, 939, 1, 32>>, <<975, 975, 1, 8>>,
      <<984, 1006, 2, 1>>, <<1012, 1012, 1, -60>>, <<1015, 1015, 1, 1>>, <<1017, 1017, 1, -7>>,
      <<1018, 1018, 1, 1>>, <<1021, 1023, 1, -130>>, <<1024, 1039, 1, 80>>, <<1040, 1071, 1, 32>>,
      <<1120, 1152, 2, 1>>, <<1162, 1214, 2, 1>>, <<1216, 1216, 1, 15>>, <<1217, 1229, 2, 1>>,
      <<1232, 1326, 2, 1>>, <<1329, 1366, 1, 48>>, <<4256, 4293, 1, 7264>>, <<4295, 4295, 1, 7264>>,
      <<4301, 4301, 1, 7264>>, <<5024, 5103, 1, 38864>>, <<5104, 5109, 1, 8>>, <<7312, 7354, 1, -3008>>,
      <<7357, 7359, 1, -3008>>, <<7680, 7828, 2, 1>>, <<7838, 7838, 1, -7615>>, <<7840, 7934, 2, 1>>,
      <<7944, 7951, 1, -8>>, <<7960, 7965, 1, -8>>, <<7976, 7983, 1, -8>>, <<7992, 7999, 1, -8>>,
      <<8008, 8013, 1, -8>>, <<8025, 8031, 2, -8>>, <<8040, 8047, 1, -8>>, <<8072, 8079, 1, -8>>,
      <<8088, 8095, 1, -8>>, <<8104, 8111, 1, -8>>, <<8120, 8121, 1, -8>>, <<8122, 8123, 1, -74>>,
      <<8124, 8124, 1, -9>>, <<8136, 8139, 1, -86>>, <<8140, 8140, 1, -9>>, <<8152, 8153, 1, -8>>,
      <<8154, 8155, 1, -100>>, <<8168, 8169, 1, -8>>, <<8170, 8171, 1, -112>>, <<8172, 8172, 1, -7>>,
      <<8184, 8185, 1, -128>>, <<8186, 8187, 1, -126>>, <<8188, 8188, 1, -9>>, <<8486, 8486, 1, -7517>>,
      <<8490, 8490, 1, -8383>>, <<8491, 8491, 1, -8262>>, <<8498, 8498, 1, 28>>, <<8544, 8559, 1, 16>>,
      <<8579, 8579, 1, 1>>, <<9398, 9423, 1, 26>>, <<11264, 11311, 1, 48>>, <<11360, 11360, 1, 1>>,
      <<11362, 11362, 1, -10743>>, <<11363, 11363, 1, -3814>>, <<11364, 11364, 1, -10727>>, <<11367, 11371, 2, 1>>,
      <<11373, 11373, 1, -10780>>, <<11374, 11374, 1, -10749>>, <<11375, 11375, 1, -10783>>, <<11376, 11376, 1, -10782>>,
      <<11378, 11378, 1, 1>>, <<11381, 11381, 1, 1>>, <<11390, 11391, 1, -10815>>, <<11392, 11490, 2, 1>>,
      <<11499, 11501, 2, 1>>, <<11506, 11506, 1, 1>>, <<42560, 42604, 2, 1>>, <<42624, 42650, 2, 1>>,
      <<42786, 42798, 2, 1>>, <<42802, 42862, 2, 1>>, <<42873, 42875, 2, 1>>, <<42877, 42877, 1, -35332>>,
      <<42878, 42886, 2, 1>>, <<42891, 42891, 1, 1>>, <<42893, 42893, 1, -42280>>, <<42896, 42898, 2, 1>>,
      <<42902, 42920, 2, 1>>, <<42922, 42922, 1, -42308>>, <<42923, 42923, 1, -42319>>, <<42924, 42924, 1, -42315>>,
      <<42925, 42925, 1, -42305>>, <<42926, 42926, 1, -42308>>, <<42928, 42928, 1, -42258>>, <<42929, 42929, 1, -42282>>,
      <<42930, 42930, 1, -42261>>, <<42931, 42931, 1, 928>>, <<42932, 42946, 2, 1>>, <<42948, 42948, 1, -48>>,
      <<42949, 42949, 1, -42307>>, <<42950, 42950, 1, -35384>>, <<42951, 42953, 2, 1>>, <<42960, 42960, 1, 1>>,
      <<42966, 42968, 2, 1>>, <<42997, 42997, 1, 1>>, <<65313, 65338, 1, 32>>, <<66560, 66599, 1, 40>>,
      <<66736, 66771, 1, 40>>, <<66928, 66938, 1, 39>>, <<66940, 66954, 1, 39>>, <<66956, 66962, 1, 39>>,
      <<66964, 66965, 1, 39>>, <<68736, 68786, 1, 64>>, <<71840, 71871, 1, 32>>, <<93760, 93791, 1, 32>>,
      <<125184, 125217, 1, 34>> }

\* The characters with the Cased property.
CasedRanges ==
    { <<65, 90>>, <<97, 122>>, <<170, 170>>, <<181, 181>>, <<186, 186>>,
      <<192, 214>>, <<216, 246>>, <<248, 442>>, <<444, 447>>, <<452, 659>>,
      <<661, 696>>, <<704, 705>>, <<736, 740>>, <<837, 837>>, <<880, 883>>,
      <<886, 887>>, <<890, 893>>, <<895, 895>>, <<902, 902>>, <<904, 906>>,
      <<908, 908>>, <<910, 929>>, <<931, 1013>>, <<1015, 1153>>, <<1162, 1327>>,
      <<1329, 1366>>, <<1376, 1416>>, <<4256, 4293>>, <<4295, 4295>>, <<4301, 4301>>,
      <<4304, 4346>>, <<4349, 4351>>, <<5024, 5109>>, <<5112, 5117>>, <<7296, 7304>>,
      <<7312, 7354>>, <<7357, 7359>>, <<7424, 7615>>, <<7680, 7957>>, <<7960, 7965>>,
      <<7968, 8005>>, <<8008, 8013>>, <<8016, 8023>>, <<8025, 8025>>, <<8027, 8027>>,
      <<8029, 8029>>, <<8031, 8061>>, <<8064, 8116>>, <<8118, 8124>>, <<8126, 8126>>,
      <<8130, 8132>>, <<8134, 8140>>, <<8144, 8147>>, <<8150, 8155>>, <<8160, 8172>>,
      <<8178, 8180>>, <<8182, 8188>>, <<8305, 8305>>, <<8319, 8319>>, <<8336, 8348>>,
      <<8450, 8450>>, <<8455, 8455>>, <<8458, 8467>>, <<8469, 8469>>, <<8473, 8477>>,
      <<8484, 8484>>, <<8486, 8486>>, <<8488, 8488>>, <<8490, 8493>>, <<8495, 8500>>,
      <<8505, 8505>>, <<8508, 8511>>, <<8517, 8521>>, <<8526, 8526>>, <<8544, 8575>>,
      <<8579, 8580>>, <<9398, 9449>>, <<11264, 11492>>, <<11499, 11502>>, <<11506, 11507>>,
      <<11520, 11557>>, <<11559, 11559>>, <<11565, 11565>>, <<42560, 42605>>, <<42624, 42653>>,
      <<42786, 42887>>, <<42891, 42894>>, <<42896, 42954>>, <<42960, 42961>>, <<42963, 42963>>,
      <<42965, 42969>>, <<42997, 42998>>, <<43000, 43002>>, <<43824, 43866>>, <<43868, 43880>>,
      <<43888, 43967>>, <<64256, 64262>>, <<64275, 64279>>, <<65313, 65338>>, <<65345, 65370>>,
      <<66560, 66639>>, <<66736, 66771>>, <<66776, 66811>>, <<66928, 66938>>, <<66940, 66954>>,
      <<66956, 66962>>, <<66964, 66965>>, <<66967, 66977>>, <<66979, 66993>>, <<66995, 67001>>,
      <<67003, 67004>>, <<67456, 67456>>, <<67459, 67461>>, <<67463, 67504>>, <<67506, 67514>>,
      <<68736, 68786>>, <<68800, 68850>>, <<71840, 71903>>, <<93760, 93823>>, <<119808, 119892>>,
      <<119894, 119964>>, <<119966, 119967>>, <<119970, 119970>>, <<119973, 119974>>, <<119977, 119980>>,
      <<119982, 119993>>, <<119995, 119995>>, <<119997, 120003>>, <<120005, 120069>>, <<120071, 120074>>,
      <<120077, 120084>>, <<120086, 120092>>, <<120094, 120121>>, <<120123, 120126>>, <<120128, 120132>>,
      <<120134, 120134>>, <<120138, 120144>>, <<120146, 120485>>, <<120488, 120512>>, <<120514, 120538>>,
      <<120540, 120570>>, <<120572, 120596>>, <<120598, 120628>>, <<120630, 120654>>, <<120656, 120686>>,
      <<120688, 120712>>, <<120714, 120744>>, <<120746, 120770>>, <<120772, 120779>>, <<122624, 122633>>,
      <<122635, 122654>>, <<125184, 125251>>, <<127280, 127305>>, <<127312, 127337>>, <<127344, 127369>> }

\* The characters with the Case_Ignorable property.
CaseIgnorableRanges ==
    { <<39, 39>>, <<46, 46>>, <<58, 58>>, <<94, 94>>, <<96, 96>>,
      <<168, 168>>, <<173, 173>>, <<175, 175>>, <<180, 180>>, <<183, 184>>,
      <<688, 879>>, <<884, 885>>, <<890, 890>>, <<900, 901>>, <<903, 903>>,
      <<1155, 1161>>, <<1369, 1369>>, <<1375, 1375>>, <<1425, 1469>>, <<1471, 1471>>,
      <<1473, 1474>>, <<1476, 1477>>, <<1479, 1479>>, <<1524, 1524>>, <<1536, 1541>>,
      <<1552, 1562>>, <<1564, 1564>>, <<1600, 1600>>, <<1611, 1631>>, <<1648, 1648>>,
      <<1750, 1757>>, <<1759, 1768>>, <<1770, 1773>>, <<1807, 1807>>, <<1809, 1809>>,
      <<1840, 1866>>, <<1958, 1968>>, <<2027, 2037>>, <<2042, 2042>>, <<2045, 2045>>,
      <<2070, 2093>>, <<2137, 2139>>, <<2184, 2184>>, <<2192, 2193>>, <<2200, 2207>>,
      <<2249, 2306>>, <<2362, 2362>>, <<2364, 2364>>, <<2369, 2376>>, <<2381, 2381>>,
      <<2385, 2391>>, <<2402, 2403>>, <<2417, 2417>>, <<2433, 2433>>, <<2492, 2492>>,
      <<2497, 2500>>, <<2509, 2509>>, <<2530, 2531>>, <<2558, 2558>>, <<2561, 2562>>,
      <<2620, 2620>>, <<2625, 2626>>, <<2631, 2632>>, <<2635, 2637>>, <<2641, 2641>>,
      <<2672, 2673>>, <<2677, 2677>>, <<2689, 2690>>, <<2748, 2748>>, <<2753, 2757>>,
      <<2759, 2760>>, <<2765, 2765>>, <<2786, 2787>>, <<2810, 2815>>, <<2817, 2817>>,
      <<2876, 2876>>, <<2879, 2879>>, <<2881, 2884>>, <<2893, 2893>>, <<2901, 2902>>,
      <<2914, 2915>>, <<2946, 2946>>, <<3008, 3008>>, <<3021, 3021>>, <<3072, 3072>>,
      <<3076, 3076>>, <<3132, 3132>>, <<3134, 3136>>, <<3142, 3144>>, <<3146, 3149>>,
      <<3157, 3158>>, <<3170, 3171>>, <<3201, 3201>>, <<3260, 3260>>, <<3263, 3263>>,
      <<3270, 3270>>, <<3276, 3277>>, <<3298, 3299>>, <<3328, 3329>>, <<3387, 3388>>,
      <<3393, 3396>>, <<3405, 3405>>, <<3426, 3427>>, <<3457, 3457>>, <<3530, 3530>>,
      <<3538, 3540>>, <<3542, 3542>>, <<3633, 3633>>, <<3636, 3642>>, <<3654, 3662>>,
      <<3761, 3761>>, <<3764, 3772>>, <<3782, 3782>>, <<3784, 3789>>, <<3864, 3865>>,
      <<3893, 3893>>, <<3895, 3895>>, <<3897, 3897>>, <<3953, 3966>>, <<3968, 3972>>,
      <<3974, 3975>>, <<3981, 3991>>, <<3993, 4028>>, <<4038, 4038>>, <<4141, 4144>>,
      <<4146, 4151>>, <<4153, 4154>>, <<4157, 4158>>, <<4184, 4185>>, <<4190, 4192>>,
      <<4209, 4212>>, <<4226, 4226>>, <<4229, 4230>>, <<4237, 4237>>, <<4253, 4253>>,
      <<4348, 4348>>, <<4957, 4959>>, <<5906, 5908>>, <<5938, 5939>>, <<5970, 5971>>,
      <<6002, 6003>>, <<6068, 6069>>, <<6071, 6077>>, <<6086, 6086>>, <<6089, 6099>>,
      <<6103, 6103>>, <<6109, 6109>>, <<6155, 6159>>, <<6211, 6211>>, <<6277, 6278>>,
      <<6313, 6313>>, <<6432, 6434>>, <<6439, 6440>>, <<6450, 6450>>, <<6457, 6459>>,
      <<6679, 6680>>, <<6683, 6683>>, <<6742, 6742>>, <<6744, 6750>>, <<6752, 6752>>,
      <<6754, 6754>>, <<6757, 6764>>, <<6771, 6780>>, <<6783, 6783>>, <<6823, 6823>>,
      <<6832, 6862>>, <<6912, 6915>>, <<6964, 6964>>, <<6966, 6970>>, <<6972, 6972>>,
      <<6978, 6978>>, <<7019, 7027>>, <<7040, 7041>>, <<7074, 7077>>, <<7080, 7081>>,
      <<7083, 7085>>, <<7142, 7142>>, <<7144, 7145>>, <<7149, 7149>>, <<7151, 7153>>,
      <<7212, 7219>>, <<7222, 7223>>, <<7288, 7293>>, <<7376, 7378>>, <<7380, 7392>>,
      <<7394, 7400>>, <<7405, 7405>>, <<7412, 7412>>, <<7416, 7417>>, <<7468, 7530>>,
      <<7544, 7544>>, <<7579, 7679>>, <<8125, 8125>>, <<8127, 8129>>, <<8141, 8143>>,
      <<8157, 8159>>, <<8173, 8175>>, <<8189, 8190>>, <<8203, 8207>>, <<8216, 8217>>,
      <<8228, 8228>>, <<8231, 8231>>, <<8234, 8238>>, <<8288, 8292>>, <<8294, 8303>>,
      <<8305, 8305>>, <<8319, 8319>>, <<8336, 8348>>, <<8400, 8432>>, <<11388, 11389>>,
      <<11503, 11505>>, <<11631, 11631>>, <<11647, 11647>>, <<11744, 11775>>, <<11823, 11823>>,
      <<12293, 12293>>, <<12330, 12333>>, <<12337, 12341>>, <<12347, 12347>>, <<12441, 12446>>,
      <<12540, 12542>>, <<40981, 40981>>, <<42232, 42237>>, <<42508, 42508>>, <<42607, 42610>>,
      <<42612, 42621>>, <<42623, 42623>>, <<42652, 42655>>, <<42736, 42737>>, <<42752, 42785>>,
      <<42864, 42864>>, <<42888, 42890>>, <<42994, 42996>>, <<43000, 43001>>, <<43010, 43010>>,
      <<43014, 43014>>, <<43019, 43019>>, <<43045, 43046>>, <<43052, 43052>>, <<43204, 43205>>,
      <<43232, 43249>>, <<43263, 43263>>, <<43302, 43309>>, <<43335, 43345>>, <<43392, 43394>>,
      <<43443, 43443>>, <<43446, 43449>>, <<43452, 43453>>, <<43471, 43471>>, <<43493, 43494>>,
      <<43561, 43566>>, <<43569, 43570>>, <<43573, 43574>>, <<43587, 43587>>, <<43596, 43596>>,
      <<43632, 43632>>, <<43644, 43644>>, <<43696, 43696>>, <<43698, 43700>>, <<43703, 43704>>,
      <<43710, 43711>>, <<43713, 43713>>, <<43741, 43741>>, <<43756, 43757>>, <<43763, 43764>>,
      <<43766, 43766>>, <<43867, 43871>>, <<43881, 43883>>, <<44005, 44005>>, <<44008, 44008>>,
      <<44013, 44013>>, <<64286, 64286>>, <<64434, 64450>>, <<65024, 65039>>, <<65043, 65043>>,
      <<65056, 65071>>, <<65106, 65106>>, <<65109, 65109>>, <<65279, 65279>>, <<65287, 65287>>,
      <<65294, 65294>>, <<65306, 65306>>, <<65342, 65342>>, <<65344, 65344>>, <<65392, 65392>>,
      <<65438, 65439>>, <<65507, 65507>>, <<65529, 65531>>, <<66045, 66045>>, <<66272, 66272>>,
      <<66422, 66426>>, <<67456, 67461>>, <<67463, 67504>>, <<67506, 67514>>, <<68097, 68099>>,
      <<68101, 68102>>, <<68108, 68111>>, <<68152, 68154>>, <<68159, 68159>>, <<68325, 68326>>,
      <<68900, 68903>>, <<69291, 69292>>, <<69446, 69456>>, <<69506, 69509>>, <<69633, 69633>>,
      <<69688, 69702>>, <<69744, 69744>>, <<69747, 69748>>, <<69759, 69761>>, <<69811, 69814>>,
      <<69817, 69818>>, <<69821, 69821>>, <<69826, 69826>>, <<69837, 69837>>, <<69888, 69890>>,
      <<69927, 69931>>, <<69933, 69940>>, <<70003, 70003>>, <<70016, 70017>>, <<70070, 70078>>,
      <<70089, 70092>>, <<70095, 70095>>, <<70191, 70193>>, <<70196, 70196>>, <<70198, 70199>>,
      <<70206, 70206>>, <<70367, 70367>>, <<70371, 70378>>, <<70400, 70401>>, <<70459, 70460>>,
      <<70464, 70464>>, <<70502, 70508>>, <<70512, 70516>>, <<70712, 70719>>, <<70722, 70724>>,
      <<70726, 70726>>, <<70750, 70750>>, <<70835, 70840>>, <<70842, 70842>>, <<70847, 70848>>,
      <<70850, 70851>>, <<71090, 71093>>, <<71100, 71101>>, <<71103, 71104>>, <<71132, 71133>>,
      <<71219, 71226>>, <<71229, 71229>>, <<71231, 71232>>, <<71339, 71339>>, <<71341, 71341>>,
      <<71344, 71349>>, <<71351, 71351>>, <<71453, 71455>>, <<71458, 71461>>, <<71463, 71467>>,
      <<71727, 71735>>, <<71737, 71738>>, <<71995, 71996>>, <<71998, 71998>>, <<72003, 72003>>,
      <<72148, 72151>>, <<72154, 72155>>, <<72160, 72160>>, <<72193, 72202>>, <<72243, 72248>>,
      <<72251, 72254>>, <<72263, 72263>>, <<72273, 72278>>, <<72281, 72283>>, <<72330, 72342>>,
      <<72344, 72345>>, <<72752, 72758>>, <<72760, 72765>>, <<72767, 72767>>, <<72850, 72871>>,
      <<72874, 72880>>, <<72882, 72883>>, <<72885, 72886>>, <<73009, 73014>>, <<73018, 73018>>,
      <<73020, 73021>>, <<73023, 73029>>, <<73031, 73031>>, <<73104, 73105>>, <<73109, 73109>>,
      <<73111, 73111>>, <<73459, 73460>>, <<78896, 78904>>, <<92912, 92916>>, <<92976, 92982>>,
      <<92992, 92995>>, <<94031, 94031>>, <<94095, 94111>>, <<94176, 94177>>, <<94179, 94180>>,
      <<110576, 110579>>, <<110581, 110587>>, <<110589, 110590>>, <<113821, 113822>>, <<113824, 113827>>,
      <<118528, 118573>>, <<118576, 118598>>, <<119143, 119145>>, <<119155, 119170>>, <<119173, 119179>>,
      <<119210, 119213>>, <<119362, 119364>>, <<121344, 121398>>, <<121403, 121452>>, <<121461, 121461>>,
      <<121476, 121476>>, <<121499, 121503>>, <<121505, 121519>>, <<122880, 122886>>, <<122888, 122904>>,
      <<122907, 122913>>, <<122915, 122916>>, <<122918, 122922>>, <<123184, 123197>>, <<123566, 123566>>,
      <<123628, 123631>>, <<125136, 125142>>, <<125252, 125259>>, <<127995, 127999>>, <<917505, 917505>>,
      <<917536, 917631>>, <<917760, 917999>> }

IsCased(c) == InRanges(c, CasedRanges)

IsCaseIgnorable(c) == InRanges(c, CaseIgnorableRanges)

LowerMapped(c, r) == r[1] <= c /\ c <= r[2] /\ (c - r[1]) % r[3] = 0

\* c moved by the offset of the mapping that applies to it, if one does.
ShiftedBy(c, mappings) ==
    IF mappings = {} THEN c ELSE c + (CHOOSE r \in mappings : TRUE)[4]

\* The lower-case mapping of a character that maps to one character.
SimpleLower(c) ==
    IF c < 128 THEN (IF c \in 65..90 THEN c + 32 ELSE c)
    ELSE ShiftedBy(c, {r \in LowerRanges : LowerMapped(c, r)})

\* str.lower() of the one-character string c: U+0130 becomes 'i' and a
\* combining dot, every other character maps to one character.
Lower(c) == IF c = 304 THEN <<105, 775>> ELSE <<SimpleLower(c)>>

\* Whether the nearest of the indices in solid before i holds a cased
\* character and the nearest after i, if any, does not.
CasedBeforeOnly(s, i, solid) ==
    LET before == {j \in solid : j < i}
        after == {j \in solid : j > i}
        near == {j \in before : \A k \in before : k <= j}
                \cup {j \in after : \A k \in after : j <= k}
        cased == {j \in near : IsCased(s[j])}
    IN  before # {} /\ cased = {j \in near : j < i}

\* Whether the capital sigma at index i of s is lower-cased to the final
\* sigma: the nearest character before it that is not case-ignorable is
\* cased, and the nearest such character after it, if any, is not.
FinalSigma(s, i) ==
    CasedBeforeOnly(s, i, {j \in 1..Len(s) : j # i /\ ~IsCaseIgnorable(s[j])})

\* str.lower(): character by character, unless s holds U+0130 (two
\* characters) or a capital sigma (final or not by its neighbours).
LowerStr(s) ==
    IF \A i \in 1..Len(s) : s[i] \notin {304, 931}
    THEN [i \in 1..Len(s) |-> SimpleLower(s[i])]
    ELSE LET F[n \in 0..Len(s)] ==
                 IF n = 0 THEN <<>>
                 ELSE F[n - 1] \o (IF s[n] = 931 /\ FinalSigma(s, n)
                                   THEN <<962>> ELSE Lower(s[n]))
         IN  F[Len(s)]

\* Python's < on str: lexicographic by code point, a proper prefix is smaller.
StrLt(s, t) ==
    \E i \in 1..Len(t) :
        /\ \A j \in 1..(i - 1) : j <= Len(s) /\ s[j] = t[j]
        /\ (i > Len(s) \/ s[i] < t[i])

StrLe(s, t) == s = t \/ StrLt(s, t)

\* str.strip(): drop leading and trailing whitespace.
Strip(s) ==
    LET keep == {i \in 1..Len(s) : ~IsSpace(s[i])}
    IN  IF keep = {} THEN <<>>
        ELSE LET lo == CHOOSE i \in keep : \A j \in keep : i <= j
                 hi == CHOOSE i \in keep : \A j \in keep : j <= i
             IN  SubSeq(s, lo, hi)

\* str.rpartition('=')[2]: the text after the last '=', the whole string if none.
AfterLastEq(s) ==
    LET eqs == {i \in 1..Len(s) : s[i] = 61}
    IN  IF eqs = {} THEN s
        ELSE LET last == CHOOSE i \in eqs : \A j \in eqs : j <= i
             IN  SubSeq(s, last + 1, Len(s))

\* Decimal value of a string of digits and underscores (underscores skipped),
\* computed from the first digit that is not a zero.  The value has to stay
\* below 2^31 here; int() itself goes up to IntMaxStrDigits digits.
DigitsValue(s) ==
    LET significant == {i \in 1..Len(s) : s[i] # 95 /\ DigitVal(s[i]) # 0}
        first == IF significant = {} THEN Len(s) + 1
                 ELSE CHOOSE i \in significant : \A j \in significant : i <= j
        F[n \in (first - 1)..Len(s)] ==
            IF n < first THEN 0
            ELSE IF s[n] = 95 THEN F[n - 1]
            ELSE F[n - 1] * 10 + DigitVal(s[n])
    IN  F[Len(s)]

\* sys.get_int_max_str_digits(): int() raises ValueError for a string with
\* more digits than this.
IntMaxStrDigits == 4300

\* int(s) for a stripped s: an optional sign, then decimal digits, single
\* underscores allowed between digits, at most IntMaxStrDigits digits (leading
\* zeros counted, underscores and the sign not).  [ok |-> FALSE] stands for
\* ValueError.
ParseInt(s) ==
    LET signed == Len(s) > 0 /\ s[1] \in {43, 45}
        body == IF signed THEN SubSeq(s, 2, Len(s)) ELSE s
        wellFormed ==
            /\ Len(body) > 0
            /\ \A i \in 1..Len(body) : IsDigit(body[i]) \/ body[i] = 95
            /\ IsDigit(body[1]) /\ IsDigit(body[Len(body)])
            /\ \A i \in 1..(Len(body) - 1) : ~(body[i] = 95 /\ body[i + 1] = 95)
            /\ Cardinality({i \in 1..Len(body) : IsDigit(body[i])})
                   <= IntMaxStrDigits
    IN  IF ~wellFormed THEN [ok |-> FALSE, val |-> 0]
        ELSE [ok |-> TRUE,
              val |-> IF signed /\ s[1] = 45 THEN 0 - DigitsValue(body)
                      ELSE DigitsValue(body)]

-----
\* parse_source: the time frame.

DEFAULT_TIME_FRAME == 48

\* 'if not time_frame': true of '' (the ValueError case) and of 0.
TimeFrameMissing(parsed) == ~parsed.ok \/ parsed.val = 0

\* source.readline() on a file opened in text mode: the text up to the
\* first line end (LF, CR or CR LF), which is read as LF.
ReadLine(text) ==
    LET ends == {i \in 1..Len(text) : text[i] \in {10, 13}}
    IN  IF ends = {} THEN text
        ELSE LET first == CHOOSE i \in ends : \A j \in ends : i <= j
             IN  SubSeq(text, 1, first - 1) \o <<10>>

\* The time frame parse_source returns for a source file that starts with
\* line.
TimeFrameFrom(line) ==
    LET parsed == ParseInt(Strip(AfterLastEq(ReadLine(line))))
    IN  IF TimeFrameMissing(parsed) THEN DEFAULT_TIME_FRAME ELSE parsed.val

----------------------------------------------------------------------------
\* convert_date: datetime.strptime(s, '%Y%m%d%H%M%S %z').  strptime turns
\* the format into the regular expression
\*   (\d\d\d\d)(1[0-2]|0[1-9]|[1-9])(3[0-1]|[1-2]\d|0[1-9]|[1-9]| [1-9])
\*   (2[0-3]|[0-1]\d|\d)([0-5]\d|\d)(6[0-1]|[0-5]\d|\d)\s+
\*   ([+-]\d\d:?[0-5]\d(:?[0-5]\d(\.\d{1,6})?)?|Z)
\* matches it at the start of s, alternatives tried in the order written,
\* and raises unless the first match found ends where s ends.

IsLeap(y) == (y % 4 = 0 /\ y % 100 # 0) \/ y % 400 = 0

DaysInMonth(y, m) ==
    IF m = 2 THEN (IF IsLeap(y) THEN 29 ELSE 28)
    ELSE IF m \in {4, 6, 9, 11} THEN 30 ELSE 31

\* date.toordinal(): days since 0001-01-01, that day being 1.
Ordinal(y, m, d) ==
    LET before == y - 1
        M[k \in 0..12] == IF k = 0 THEN 0 ELSE M[k - 1] + DaysInMonth(y, k)
    IN  before * 365 + (before \div 4) - (before \div 100) + (before \div 400)
        + M[m - 1] + d

\* The value convert_date returns on failure (None).
None == [ok |-> FALSE, day |-> 0, sec |-> 0, us |-> 0]

\* Whether the characters a, b match a two-character alternative of
\* directive f (1: %m, 2: %d, 3: %H, 4: %M, 5: %S).
TwoChars(f, a, b) ==
    IF f = 1 THEN (a = 49 /\ b \in 48..50) \/ (a = 48 /\ b \in 49..57)
    ELSE IF f = 2
    THEN \/ (a = 51 /\ b \in 48..49)
         \/ (a \in 49..50 /\ IsDigit(b))
         \/ (a \in {48, 32} /\ b \in 49..57)
    ELSE IF f = 3 THEN (a = 50 /\ b \in 48..51) \/ (a \in 48..49 /\ IsDigit(b))
    ELSE IF f = 4 THEN a \in 48..53 /\ IsDigit(b)
    ELSE (a = 54 /\ b \in 48..49) \/ (a \in 48..53 /\ IsDigit(b))

\* Whether the character a matches the one-character alternative of
\* directive f.
OneChar(f, a) == IF f \in {1, 2} THEN a \in 49..57 ELSE IsDigit(a)

\* int() of the two characters a directive matched (' 5' is 5).
TwoVal(a, b) == IF a = 32 THEN DigitVal(b) ELSE DigitVal(a) * 10 + DigitVal(b)

\* The index after the %z text that starts at index p, 0 if none does.
\* Every optional part is taken when it is there.
ZoneEnd(s, p) ==
    IF At(s, p) = 90 THEN p + 1
    ELSE IF ~(At(s, p) \in {43, 45} /\ IsDigit(At(s, p + 1))
              /\ IsDigit(At(s, p + 2)))
    THEN 0
    ELSE LET q == IF At(s, p + 3) = 58 THEN p + 4 ELSE p + 3
         IN  IF ~(At(s, q) \in 48..53 /\ IsDigit(At(s, q + 1))) THEN 0
             ELSE LET r == IF At(s, q + 2) = 58 THEN q + 3 ELSE q + 2
                      t == r + 2
                      k == Cardinality({n \in 1..6 :
                               \A i \in 1..n : IsDigit(At(s, t + i))})
                  IN  IF ~(At(s, r) \in 48..53 /\ IsDigit(At(s, r + 1)))
                      THEN q + 2
                      ELSE IF At(s, t) = 46 /\ k > 0 THEN t + 1 + k
                      ELSE t

\* zone if it lies after p and a %z text starts there, 0 otherwise.
ZoneAt(s, p, zone) == IF zone > p /\ ZoneEnd(s, zone) > 0 THEN zone ELSE 0

\* The index where %z starts when '\s+' is matched from index p on: the
\* white space is taken whole.  0 if there is no white space at p or no %z
\* after it.
ZoneStart(s, p) ==
    ZoneAt(s, p, Len(s) + 1 - Cardinality({i \in p..Len(s) :
                                  \E j \in p..i : ~IsSpace(s[j])}))

\* Whether the directives from the f-th on (1: %m ... 5: %S, 6: the white
\* space and %z) match from index p on, as the backtracking search finds
\* it: for each directive the two-character alternative before the
\* one-character one, the next alternative tried when the rest fails.
RECURSIVE FieldsMatch(_, _, _)
FieldsMatch(s, f, p) ==
    IF f = 6 THEN ZoneStart(s, p) > 0
    ELSE \/ TwoChars(f, At(s, p), At(s, p + 1)) /\ FieldsMatch(s, f + 1, p + 2)
         \/ OneChar(f, At(s, p)) /\ FieldsMatch(s, f + 1, p + 1)

\* Where the directive after the f-th starts in the first match, the f-th
\* starting at p.
NextStart(s, f, p) ==
    IF TwoChars(f, At(s, p), At(s, p + 1)) /\ FieldsMatch(s, f + 1, p + 2)
    THEN p + 2 ELSE p + 1

\* Where the f-th directive starts in the first match (%m at index 5).
RECURSIVE FieldStart(_, _)
FieldStart(s, f) == IF f = 1 THEN 5 ELSE NextStart(s, f - 1, FieldStart(s, f - 1))

\* int() of the text from p up to q, one or two characters.
FieldVal(s, p, q) == IF q = p + 2 THEN TwoVal(s[p], s[p + 1]) ELSE DigitVal(s[p])

\* The offset the text z of %z stands for, as _strptime computes it: a
\* colon after the hours is dropped, and then one after the minutes must
\* be there if anything follows them; without the first colon a second one
\* is read as part of the seconds, which int() rejects.
ZoneOffset(z) ==
    IF z = <<90>> THEN [ok |-> TRUE, sec |-> 0, us |-> 0]
    ELSE LET colon == z[4] = 58
             m == IF colon THEN 5 ELSE 4
             rest == SubSeq(z, m + 2, Len(z))
             consistent == rest = <<>> \/ ((rest[1] = 58) <=> colon)
             body == IF rest # <<>> /\ rest[1] = 58
                     THEN SubSeq(rest, 2, Len(rest)) ELSE rest
             frac == SubSeq(body, 4, Len(body))
             F[n \in 0..6] ==
                 IF n = 0 THEN 0
                 ELSE F[n - 1] * 10
                      + (IF n <= Len(frac) THEN DigitVal(frac[n]) ELSE 0)
             sign == IF z[1] = 45 THEN 0 - 1 ELSE 1
             seconds == IF body = <<>> THEN 0
                        ELSE DigitVal(body[1]) * 10 + DigitVal(body[2])
         IN  IF ~consistent THEN [ok |-> FALSE, sec |-> 0, us |-> 0]
             ELSE [ok |-> TRUE,
                   sec |-> sign * ((DigitVal(z[2]) * 10 + DigitVal(z[3])) * 3600
                                   + (DigitVal(z[m]) * 10 + DigitVal(z[m + 1])) * 60
                                   + seconds),
                   us |-> sign * F[6]]

\* The aware datetime of year y, the fields vals (month, day, hour, minute,
\* second) and the offset off, None where a constructor raises: datetime
\* rejects year 0, a day the month does not have and second 60 or 61,
\* timezone() an offset of 24 hours or more.  The datetime is the UTC day,
\* second and microsecond it denotes (sec and us may leave 0..86399 and
\* 0..999999: only differences are taken).
DateTime(y, vals, off) ==
    IF /\ off.ok
       /\ y >= 1 /\ vals[2] <= DaysInMonth(y, vals[1]) /\ vals[5] <= 59
       /\ off.sec < 86400 /\ off.sec > 0 - 86400
    THEN [ok |-> TRUE,
          day |-> Ordinal(y, vals[1], vals[2]),
          sec |-> vals[3] * 3600 + vals[4] * 60 + vals[5] - off.sec,
          us |-> 0 - off.us]
    ELSE None

\* The result for a match whose directives start at starts and whose %z
\* starts at zone: None if the match ends before s does.
Converted(s, starts, zone) ==
    IF ZoneEnd(s, zone) # Len(s) + 1 THEN None
    ELSE DateTime(DigitVal(s[1]) * 1000 + DigitVal(s[2]) * 100
                  + DigitVal(s[3]) * 10 + DigitVal(s[4]),
                  [f \in 1..5 |-> FieldVal(s, starts[f], starts[f + 1])],
                  ZoneOffset(SubSeq(s, zone, Len(s))))

\* starts[6] is where the white space starts.
Matched(s, starts) == Converted(s, starts, ZoneStart(s, starts[6]))

\* datetime.strptime(s, '%Y%m%d%H%M%S %z'), None where it raises.
strptime(s) ==
    IF Len(s) >= 4 /\ (\A i \in 1..4 : IsDigit(s[i])) /\ FieldsMatch(s, 1, 5)
    THEN Matched(s, [f \in 1..6 |-> FieldStart(s, f)])
    ELSE None

----------------------------------------------------------------------------
\* The timestamps the feeds of the specifications carry.

Digits(ds) == [i \in 1..Len(ds) |-> 48 + ds[i]]

\* 'YYYYMMDDHHMMSS +HHMM' (sign 43) or 'YYYYMMDDHHMMSS -HHMM' (sign 45).
Stamp(ds, sign, off) == Digits(ds) \o <<32, sign>> \o Digits(off)

\* Timestamps with their distance from PipelineStart (2024-01-01 12:00:00
\* UTC) as Python computes it, hours * 3600 seconds + secs seconds + us
\* microseconds with 0 <= secs < 3600 and 0 <= us < 1000000; parses is FALSE
\* where strptime raises.  '20240103130000 Z' is a form strptime reads as
\* well, and so is an offset with seconds and a fraction:
\* '25680529140000 +00:00:00.000001' is one microsecond short of 4772186
\* hours.
StampTable ==
    { [raw |-> Stamp(<<2,0,2,4,0,1,0,1,1,1,0,0,0,0>>, 43, <<0,0,0,0>>),
       parses |-> TRUE, hours |-> 0 - 1, secs |-> 0, us |-> 0],
      [raw |-> Stamp(<<2,0,2,4,0,1,0,1,1,2,0,0,0,0>>, 43, <<0,0,0,0>>),
       parses |-> TRUE, hours |-> 0, secs |-> 0, us |-> 0],
      [raw |-> Stamp(<<2,0,2,4,0,1,0,1,1,3,0,0,0,0>>, 43, <<0,0,0,0>>),
       parses |-> TRUE, hours |-> 1, secs |-> 0, us |-> 0],
      [raw |-> Stamp(<<2,0,2,4,0,1,0,1,1,5,0,0,0,0>>, 43, <<0,1,0,0>>),
       parses |-> TRUE, hours |-> 2, secs |-> 0, us |-> 0],
      [raw |-> Stamp(<<2,0,2,4,0,1,0,3,1,2,0,0,0,0>>, 43, <<0,0,0,0>>),
       parses |-> TRUE, hours |-> 48, secs |-> 0, us |-> 0],
      [raw |-> Stamp(<<2,0,2,3,1,2,3,1,2,3,5,9,5,9>>, 45, <<0,1,0,0>>),
       parses |-> TRUE, hours |-> 0 - 12, secs |-> 3599, us |-> 0],
      [raw |-> Digits(<<2,0,2,4,0,1,0,3,1,3,0,0,0,0>>) \o <<32, 90>>,
       parses |-> TRUE, hours |-> 49, secs |-> 0, us |-> 0],
      [raw |-> Digits(<<2,5,6,8,0,5,2,9,1,4,0,0,0,0>>) \o <<32, 43>>
                   \o Digits(<<0,0>>) \o <<58>> \o Digits(<<0,0>>) \o <<58>>
                   \o Digits(<<0,0>>) \o <<46>> \o Digits(<<0,0,0,0,0,1>>),
       parses |-> TRUE, hours |-> 4772185, secs |-> 3599, us |-> 999999],
      [raw |-> Digits(<<2,0,2,4,0,1,0,1,1,3,0,0,0,0>>),
       parses |-> FALSE, hours |-> 0, secs |-> 0, us |-> 0],
      [raw |-> Stamp(<<2,0,2,4,0,2,3,0,1,2,0,0,0,0>>, 43, <<0,0,0,0>>),
       parses |-> FALSE, hours |-> 0, secs |-> 0, us |-> 0] }

\* The timestamp of the table that parses and lies h hours from PipelineStart.
StampAt(h) ==
    (CHOOSE e \in StampTable :
        e.parses /\ e.hours = h /\ e.secs = 0 /\ e.us = 0).raw

NoZoneStamp == Digits(<<2,0,2,4,0,1,0,1,1,3,0,0,0,0>>)

\* strptime of every timestamp of the table.
ParsedStamps == [raw \in {e.raw : e \in StampTable} |-> strptime(raw)]

----------------------------------------------------------------------------
\* convert_date: the datetime strptime returns, None on any exception.  For
\* a timestamp of the table the value is taken from ParsedStamps, where it
\* is computed once.
convert_date(s) ==
    IF \E e \in StampTable : e.raw = s THEN ParsedStamps[s] ELSE strptime(s)

\* a - b of two aware datetimes: a timedelta, normalised as Python keeps it
\* (0 <= seconds < 86400, 0 <= microseconds < 1000000).
Difference(a, b) ==
    LET us == a.us - b.us
        sec == (a.sec - b.sec) + (us \div 1000000)
    IN  [days |-> (a.day - b.day) + (sec \div 86400),
         seconds |-> sec % 86400,
         microseconds |-> us % 1000000]

\* The whole hours n from which 3600 * n needs one more bit: the least n
\* with 3600 * n >= 2^E, for E = 34..39.
BinadeStarts ==
    <<4772186, 9544372, 19088744, 38177488, 76354975, 152709949>>

\* total_seconds() is (days * 86400 + seconds) * 10^6 + microseconds divided
\* by 10^6, rounded to a binary64; the division by 3600 rounds once more.  The
\* quotient is the whole number n exactly when the first rounding gives
\* 3600 * n, that is when the delta is within SnapRadius(n) microseconds of n
\* hours: not at all below 2^34 seconds, half a unit in the last place above.
SnapRadius(n) ==
    999999 \div 2^(20 - Cardinality({i \in 1..6 : BinadeStarts[i] <= n}))

Abs(n) == IF n < 0 THEN 0 - n ELSE n

\* td.total_seconds() / 3600 as a float, given by its floor and by whether it
\* is a whole number; h is the floor of the exact quotient.
FloatOf(td, h) ==
    LET up == /\ td.seconds % 3600 = 3599
              /\ 1000000 - td.microseconds <= SnapRadius(Abs(h + 1))
        down == /\ td.seconds % 3600 = 0
                /\ td.microseconds <= SnapRadius(Abs(h))
    IN  [floor |-> IF up THEN h + 1 ELSE h, whole |-> up \/ down]

FloatHours(td) == FloatOf(td, td.days * 24 + td.seconds \div 3600)

\* y < n and y > n for a float y and an integer n.
FloatLt(y, n) == y.floor < n

FloatGt(y, n) == y.floor > n \/ (y.floor = n /\ ~y.whole)

\* main: start = datetime.now(UTC); the run modelled starts at
\* 2024-01-01 12:00:00 UTC.
PipelineStart ==
    [ok |-> TRUE, day |-> Ordinal(2024, 1, 1), sec |-> 12 * 3600, us |-> 0]

-----
\* process_epgsource.

InList(x, list) == \E i \in 1..Len(list) : list[i] = x

\* list.remove(x): drop the first occurrence (the caller has checked x is there).
ListRemove(list, x) ==
    LET k == CHOOSE i \in 1..Len(list) :
                 list[i] = x /\ \A j \in 1..(i - 1) : list[j] # x
    IN  SubSeq(list, 1, k - 1) \o SubSeq(list, k + 1, Len(list))

\* The channel loop.  Every channel element whose id is requested is
\* appended; channel_skipped.remove raises ValueError when the id was
\* removed before, that is on the second element with a requested id.
ChannelWalk(tree_channels, channel_to_process) ==
    LET F[n \in 0..Len(tree_channels)] ==
            IF n = 0
            THEN [taken |-> <<>>, channel_skipped |-> channel_to_process,
                  raised |-> FALSE]
            ELSE LET prev == F[n - 1]
                     channel == tree_channels[n]
                 IN  IF prev.raised \/ ~InList(channel.id, channel_to_process)
                     THEN prev
                     ELSE IF InList(channel.id, prev.channel_skipped)
                     THEN [taken |-> Append(prev.taken, channel),
                           channel_skipped |->
                               ListRemove(prev.channel_skipped, channel.id),
                           raised |-> FALSE]
                     ELSE [taken |-> Append(prev.taken, channel),
                           channel_skipped |-> prev.channel_skipped,
                           raised |-> TRUE]
    IN  F[Len(tree_channels)]

\* Variant: the channel attribute is not looked at.
ProgrammeWantedAny(programme, channel_to_process) == TRUE

\* 'if programme.attrib['channel'] in channel_to_process'.
ProgrammeWanted(programme, channel_to_process) ==
    InList(programme.channel, channel_to_process)

\* 'start_delta < time_frame and stop_delta > 0', the deltas being
\* total_seconds() / 3600.
InWindow(program_start, program_stop, start, tf) ==
    /\ FloatLt(FloatHours(Difference(program_start, start)), tf)
    /\ FloatGt(FloatHours(Difference(program_stop, start)), 0)

\* Variant: a programme whose start or stop does not parse is dropped.
RetainedDroppingUnparsed(programme, start, tf) ==
    /\ convert_date(programme.start).ok /\ convert_date(programme.stop).ok
    /\ InWindow(convert_date(programme.start), convert_date(programme.stop),
                start, tf)

\* Lines 133-141: with both dates the window decides, without one of them
\* the programme is appended.
KeepingUnparsed(program_start, program_stop, start, tf) ==
    IF program_start.ok /\ program_stop.ok
    THEN InWindow(program_start, program_stop, start, tf)
    ELSE TRUE

\* Whether the programme loop appends a wanted programme (lines 131-141).
Retained(programme, start, tf) ==
    KeepingUnparsed(convert_date(programme.start),
                    convert_date(programme.stop), start, tf)

ProgrammeWalk(tree_programmes, channel_to_process, start, tf) ==
    SelectSeq(tree_programmes,
              LAMBDA p : ProgrammeWanted(p, channel_to_process)
                         /\ Retained(p, start, tf))

\* A downloaded file: whether its path ends in 'gz', whether gzip can read
\* it, whether ET.parse accepts the XML, and the parsed tree.
EmptyTree == [channels |-> <<>>, programmes |-> <<>>]

\* process_epgsource(file_path, channel_to_process, channel_section_xml,
\* programm_section_xml, start, time_frame): the two lists after the call
\* and how the call ended (gzip_failed and parse_failed return early,
\* extracted returns at the end, raised leaves with ValueError).
process_epgsource(file, channel_to_process, channels, programmes, start, tf) ==
    IF file.gz /\ ~file.gunzip_ok
    THEN [channels |-> channels, programmes |-> programmes,
          outcome |-> "gzip_failed"]
    ELSE IF ~file.xml_ok
    THEN [channels |-> channels, programmes |-> programmes,
          outcome |-> "parse_failed"]
    ELSE LET walk == ChannelWalk(file.tree.channels, channel_to_process)
         IN  IF walk.raised
             THEN [channels |-> channels \o walk.taken,
                   programmes |-> programmes,
                   outcome |-> "raised"]
             ELSE [channels |-> channels \o walk.taken,
                   programmes |-> programmes \o
                       ProgrammeWalk(file.tree.programmes, channel_to_process,
                                     start, tf),
                   outcome |-> "extracted"]
----------------------------------------------------------------------------
\* main: the steps around process_epgsource.

\* Variant: processed_channels is not consulted.
ChannelToProcessUnfiltered(channel_list, processed) == channel_list

\* Lines 176-182: the requested ids not yet in processed_channels.
ChannelToProcess(channel_list, processed) ==
    SelectSeq(channel_list, LAMBDA c : ~InList(c, processed))

\* Variant: processed_channels is never extended.
ExtendNothing(processed, channel_to_process) == processed

\* Line 186: processed_channels.extend(channel_to_process).
ExtendProcessed(processed, channel_to_process) ==
    processed \o channel_to_process

\* Variant: the ids compared as written, without lower().
ChannelKeyLeAsWritten(c1, c2) == StrLe(c1.id, c2.id)

\* key=lambda c: c.attrib['id'].lower()
ChannelKeyLe(c1, c2) == StrLe(LowerStr(c1.id), LowerStr(c2.id))

\* (c1, s1) <= (c2, s2) for two tuples of str.
PairLe(c1, s1, c2, s2) == StrLt(c1, c2) \/ (c1 = c2 /\ StrLe(s1, s2))

\* key=lambda p: (p.attrib['channel'].lower(), p.attrib['start'])
ProgrammeKeyLe(p1, p2) ==
    PairLe(LowerStr(p1.channel), p1.start, LowerStr(p2.channel), p2.start)

\* key(x) <= key(y) for two elements of the list being sorted.
KeyLe(x, y) ==
    IF x.tag = "channel" THEN ChannelKeyLe(x, y) ELSE ProgrammeKeyLe(x, y)

\* sorted(seq, key=...): stable and ascending, as an insertion sort that
\* puts each element after those whose key is not greater.
Sorted(seq) ==
    LET Insert(acc, x) ==
            LET k == Cardinality({i \in 1..Len(acc) : KeyLe(acc[i], x)})
            IN  SubSeq(acc, 1, k) \o <<x>> \o SubSeq(acc, k + 1, Len(acc))
        F[n \in 0..Len(seq)] ==
            IF n = 0 THEN <<>> ELSE Insert(F[n - 1], seq[n])
    IN  F[Len(seq)]

\* Lines 190-202: the children of <tv>, sorted channels then sorted programmes.
MergedRoot(channels, programmes) == Sorted(channels) \o Sorted(programmes)

\* tree.findall(tag) on a list of children.
FindAll(children, tag) == SelectSeq(children, LAMBDA e : e.tag = tag)

\* The ids of a list of channel elements, each once, in document order.
IdsOf(channels) ==
    LET F[n \in 0..Len(channels)] ==
            IF n = 0 THEN <<>>
            ELSE IF InList(channels[n].id, F[n - 1]) THEN F[n - 1]
            ELSE Append(F[n - 1], channels[n].id)
    IN  F[Len(channels)]

----------------------------------------------------------------------------
\* The inputs: channel ids, timestamps, feed documents, downloads.

\* Channel ids 'a' and 'B': 'B' < 'a' as written, 'a' < 'b' lower-cased.
ChannelIds == {<<97>>, <<66>>}

\* Channel lists parse_source can build (ids unique within a list).
ChannelLists == {<<<<97>>>>, <<<<97>>, <<66>>>>}

SeqsUpTo(S, n) == UNION {[1..k -> S] : k \in 0..n}

\* The feed lists parse_source can return, one entry per distinct URL.
SourceLists ==
    UNION {[1..n -> [channel_list : ChannelLists]] : n \in 1..MaxFeeds}

\* The programmes of the feeds of a full run: for 'a' one on air at the
\* pipeline start, one starting an hour later and one whose start has no
\* zone; for 'B' one on air.
MainShapes ==
    { [channel |-> <<97>>, start |-> StampAt(0 - 1), stop |-> StampAt(1)],
      [channel |-> <<97>>, start |-> StampAt(1), stop |-> StampAt(48)],
      [channel |-> <<97>>, start |-> NoZoneStamp, stop |-> StampAt(0)],
      [channel |-> <<66>>, start |-> StampAt(0 - 1), stop |-> StampAt(1)] }

\* The programmes of the single-feed specification: every start of the
\* table with a stop at the pipeline start, one after it and one that does
\* not parse, for 'a'; two programmes for 'B'.
ExtractStops == {StampAt(0), StampAt(48), NoZoneStamp}

ExtractShapes ==
    {[channel |-> <<97>>, start |-> a.raw, stop |-> b] :
        a \in StampTable, b \in ExtractStops}
    \cup {[channel |-> <<66>>, start |-> StampAt(0 - 1), stop |-> StampAt(1)],
          [channel |-> <<66>>, start |-> NoZoneStamp, stop |-> NoZoneStamp]}

\* The XML tree of feed k: its channel elements and programme elements in
\* document order.  src and pos stand for the element's content.
MakeTree(k, ids, shapes) ==
    [channels |->
        [i \in 1..Len(ids) |->
            [tag |-> "channel", id |-> ids[i], src |-> k, pos |-> i]],
     programmes |->
        [i \in 1..Len(shapes) |->
            [tag |-> "programme", channel |-> shapes[i].channel,
             start |-> shapes[i].start, stop |-> shapes[i].stop,
             src |-> k, pos |-> i]]]

TreeSize(tree) == Len(tree.channels) + Len(tree.programmes)

\* What download_file and the file system hand to the loop body: no file
\* (download_file returned ''), a file gzip cannot read, a file ET.parse
\* rejects, or a file that parses to a tree.
DownloadKinds == {"none", "bad_gzip", "bad_xml", "xml"}

Download(kind, gz, tree) ==
    [downloaded |-> kind # "none",
     gz |-> gz,
     gunzip_ok |-> kind # "bad_gzip",
     xml_ok |-> kind = "xml",
     tree |-> IF kind = "xml" THEN tree ELSE EmptyTree]

\* First line of the source file in a full run: 'timeframe=1' shortened to
\* '=1'.
MainLines == {<<61, 49>>}

\* First lines of the parse_source specification: up to MaxLineLen
\* characters of 't', '=', '-', '0', '1', ' ', form feed and the
\* Arabic-Indic digit one.
LineAlphabet == {116, 61, 45, 48, 49, 32, 12, 1633}

ParseLines == SeqsUpTo(LineAlphabet, MaxLineLen)

\* The time frame of the re-extraction of the merged document (hours).
LargeTimeFrame == 10 * 366 * 24

----------------------------------------------------------------------------
\* The state machine.

NoReextract == [channels |-> <<>>, programmes |-> <<>>, outcome |-> "none"]

InitWith(lines) ==
    /\ pc = "start"
    /\ first_line \in lines
    /\ info_source = <<>>
    /\ time_frame = 0
    /\ idx = 1
    /\ processed_channels = <<>>
    /\ channel_section_xml = <<>>
    /\ programm_section_xml = <<>>
    /\ log = <<>>
    /\ root = <<>>
    /\ reextract = NoReextract

Init == InitWith(MainLines)

\* Elements the feeds handled so far held.
Used ==
    LET F[n \in 0..Len(log)] ==
            IF n = 0 THEN 0 ELSE F[n - 1] + TreeSize(log[n].tree)
    IN  F[Len(log)]

\* main, line 155: parse_source.  The feed list is whatever the rest of the
\* file holds.
ParseSourceInto(lists) ==
    /\ pc = "start"
    /\ time_frame' = TimeFrameFrom(first_line)
    /\ info_source' \in lists
    /\ pc' = "loop"
    /\ UNCHANGED <<first_line, idx, processed_channels, channel_section_xml,
                   programm_section_xml, log, root, reextract>>

ParseSource == ParseSourceInto(SourceLists)

\* main, lines 184-186, for a file that was downloaded: r is what
\* process_epgsource leaves.  Its ValueError ends the run; otherwise the
\* requested channels are marked processed, also when it returned early.
AfterExtraction(file, channel_to_process, r) ==
    /\ channel_section_xml' = r.channels
    /\ programm_section_xml' = r.programmes
    /\ log' = Append(log, [outcome |-> r.outcome,
                           channel_to_process |-> channel_to_process,
                           tree |-> file.tree])
    /\ IF r.outcome = "raised"
       THEN /\ pc' = "crashed"
            /\ UNCHANGED <<processed_channels, idx>>
       ELSE /\ pc' = pc
            /\ processed_channels' =
                   ExtendProcessed(processed_channels, channel_to_process)
            /\ idx' = idx + 1

\* main, lines 176-188, for the file download_file left.
HandleFeed(file, channel_to_process) ==
    IF ~file.downloaded
    THEN /\ log' = Append(log, [outcome |-> "download_failed",
                                channel_to_process |-> channel_to_process,
                                tree |-> EmptyTree])
         /\ idx' = idx + 1
         /\ UNCHANGED <<pc, processed_channels, channel_section_xml,
                        programm_section_xml>>
    ELSE AfterExtraction(file, channel_to_process,
                         process_epgsource(file, channel_to_process,
                                           channel_section_xml,
                                           programm_section_xml,
                                           PipelineStart, time_frame))

\* main, lines 174-188: one iteration of the loop over info_source, for a
\* feed whose document holds at most maxChannels channel elements,
\* maxProgrammes programme elements drawn from Shapes, and budget elements.
ProcessFeedFrom(maxChannels, maxProgrammes, budget, Shapes) ==
    /\ pc = "loop"
    /\ idx <= Len(info_source)
    /\ \E kind \in DownloadKinds, gz \in BOOLEAN :
       \E ids \in SeqsUpTo(ChannelIds, IF kind = "xml" THEN Min(maxChannels, budget) ELSE 0) :
       \E shapes \in SeqsUpTo(Shapes, IF kind = "xml"
                                      THEN Min(maxProgrammes, budget - Len(ids))
                                      ELSE 0) :
        /\ kind = "bad_gzip" => gz
        /\ kind = "none" => ~gz
        /\ HandleFeed(Download(kind, gz, MakeTree(idx, ids, shapes)),
                      ChannelToProcess(info_source[idx].channel_list,
                                       processed_channels))
    /\ UNCHANGED <<first_line, info_source, time_frame, root, reextract>>

ProcessFeed == ProcessFeedFrom(MaxElems, MaxElems, MaxElems - Used, MainShapes)

\* main, lines 190-206: sort, build <tv>, write epg.xml.
Serialize ==
    /\ pc = "loop"
    /\ idx > Len(info_source)
    /\ root' = MergedRoot(channel_section_xml, programm_section_xml)
    /\ pc' = "done"
    /\ UNCHANGED <<first_line, info_source, time_frame, idx, processed_channels,
                   channel_section_xml, programm_section_xml, log, reextract>>

\* process_epgsource on the merged document, with empty lists, the same
\* start, every channel id of the document requested and a large time frame.
ReExtract ==
    /\ pc = "done"
    /\ reextract' =
        process_epgsource(
            [downloaded |-> TRUE, gz |-> FALSE, gunzip_ok |-> TRUE, xml_ok |-> TRUE,
             tree |-> [channels |-> FindAll(root, "channel"),
                       programmes |-> FindAll(root, "programme")]],
            IdsOf(FindAll(root, "channel")), <<>>, <<>>,
            PipelineStart, LargeTimeFrame)
    /\ pc' = "reextracted"
    /\ UNCHANGED <<first_line, info_source, time_frame, idx, processed_channels,
                   channel_section_xml, programm_section_xml, log, root>>

Next == ParseSource \/ ProcessFeed \/ Serialize \/ ReExtract

Spec == Init /\ [][Next]_vars

\* parse_source alone, over every first line of up to MaxLineLen characters.
InitParse == InitWith(ParseLines)

NextParse == ParseSource

SpecParse == InitParse /\ [][NextParse]_vars

\* One feed with up to MaxProgs programme elements, under the time frames
\* 2 ('=2'), 48 ('t', the default), -1 ('=-1') and 4772186 ('=4772186').
ExtractLines ==
    {<<61, 50>>, <<116>>, <<61, 45, 49>>, <<61, 52, 55, 55, 50, 49, 56, 54>>}

InitExtract == InitWith(ExtractLines)

ParseSourceOne ==
    ParseSourceInto({<<[channel_list |-> <<<<97>>>>]>>})

ProcessFeedOne == ProcessFeedFrom(0, MaxProgs, MaxProgs, ExtractShapes)

NextExtract == ParseSourceOne \/ ProcessFeedOne \/ Serialize

SpecExtract == InitExtract /\ [][NextExtract]_vars

----------------------------------------------------------------------------
\* Properties.

Range(seq) == {seq[i] : i \in 1..Len(seq)}

SoftOutcomes == {"download_failed", "gzip_failed", "parse_failed"}

Written == pc \in {"done", "reextracted"}

RootChannels == FindAll(root, "channel")

RootProgrammes == FindAll(root, "programme")

\* The table's entry for a raw timestamp: what Python makes of it.
Truth(raw) == CHOOSE e \in StampTable : e.raw = raw

\* The timestamp lies exactly h hours, less than h hours, more than h hours
\* from the pipeline start.
Exactly(raw, h) ==
    Truth(raw).hours = h /\ Truth(raw).secs = 0 /\ Truth(raw).us = 0

Under(raw, h) == Truth(raw).hours < h

Over(raw, h) == ~Under(raw, h) /\ ~Exactly(raw, h)

\* C1: a loop iteration whose feed fails soft (no download, gzip failure,
\* XML parse failure) leaves processed_channels as it was.
C1_SoftFailureMarksNothing ==
    [][(Len(log') = Len(log) + 1 /\ log'[Len(log')].outcome \in SoftOutcomes)
        => processed_channels' = processed_channels]_vars

\* C2: in the merged document no two channel elements have the same id.
C2_ChannelIdsUnique ==
    Written =>
        \A i, j \in 1..Len(RootChannels) :
            RootChannels[i].id = RootChannels[j].id => i = j

\* C2 witness: the document is written after two feeds that were both asked
\* for 'a' and both held a channel element 'a'.
C2_Witness ==
    /\ pc = "done"
    /\ Len(log) >= 2
    /\ \A k \in 1..2 :
        /\ log[k].outcome = "extracted"
        /\ InList(<<97>>, info_source[k].channel_list)
        /\ \E e \in Range(log[k].tree.channels) : e.id = <<97>>

\* C3: once a feed has been fetched, parsed and extracted, every id
\* requested of it is in processed_channels, no later feed has contributed a
\* channel or programme element for such an id, and in the merged document
\* the channel elements it supplied stand as supplied, alone for their id.
C3_FirstFeedWins ==
    \A i \in 1..Len(log) :
        log[i].outcome = "extracted" =>
            /\ \A c \in Range(info_source[i].channel_list) :
                   InList(c, processed_channels)
            /\ \A e \in Range(channel_section_xml) :
                   e.src > i => ~InList(e.id, info_source[i].channel_list)
            /\ \A p \in Range(programm_section_xml) :
                   p.src > i => ~InList(p.channel, info_source[i].channel_list)
            /\ Written =>
                   \A e \in Range(log[i].tree.channels) :
                       InList(e.id, log[i].channel_to_process) =>
                           /\ e \in Range(RootChannels)
                           /\ \A f \in Range(RootChannels) : f.id = e.id => f = e

\* C3 witness: feed 1 was asked for 'a' and 'B' and held only 'a'; feed 2 was
\* asked for both and held both; the document is written.
C3_Witness ==
    /\ pc = "done"
    /\ Len(log) >= 2
    /\ log[1].outcome = "extracted" /\ log[2].outcome = "extracted"
    /\ info_source[1].channel_list = <<<<97>>, <<66>>>>
    /\ info_source[2].channel_list = <<<<97>>, <<66>>>>
    /\ \A e \in Range(log[1].tree.channels) : e.id = <<97>>
    /\ log[1].tree.channels # <<>>
    /\ {e.id : e \in Range(log[2].tree.channels)} = ChannelIds

\* C4: a wanted programme whose start and stop both parse is kept iff
\* start < pipeline start + time_frame hours and stop > pipeline start.
C4_WindowIsStrict ==
    \A i \in 1..Len(log) :
        log[i].outcome = "extracted" =>
            \A p \in Range(log[i].tree.programmes) :
                (/\ InList(p.channel, log[i].channel_to_process)
                 /\ Truth(p.start).parses
                 /\ Truth(p.stop).parses)
                => (p \in Range(programm_section_xml)
                    <=> (/\ Under(p.start, time_frame)
                         /\ Over(p.stop, 0)))

\* C5: a wanted programme whose start or stop does not parse is kept.
C5_UnparsedIsKept ==
    \A i \in 1..Len(log) :
        log[i].outcome = "extracted" =>
            \A p \in Range(log[i].tree.programmes) :
                (/\ InList(p.channel, log[i].channel_to_process)
                 /\ (~Truth(p.start).parses \/ ~Truth(p.stop).parses))
                => p \in Range(programm_section_xml)

\* C5 witness: a kept programme that starts after the window and whose stop
\* does not parse, and one that stopped before the pipeline start and whose
\* start does not parse.
C5_Witness ==
    /\ Len(log) = 1
    /\ log[1].outcome = "extracted"
    /\ \E p, q \in Range(programm_section_xml) :
        /\ Truth(p.start).parses /\ ~Truth(p.stop).parses
        /\ ~Under(p.start, time_frame)
        /\ ~Truth(q.start).parses /\ Truth(q.stop).parses
        /\ ~Over(q.stop, 0)

\* C6: in the merged document channels come before programmes, channels
\* ascend by lower-cased id, programmes by (lower-cased channel, raw start).
C6_DocumentIsSorted ==
    Written =>
        \A i, j \in 1..Len(root) :
            i < j =>
                /\ ~(root[i].tag = "programme" /\ root[j].tag = "channel")
                /\ (root[i].tag = "channel" /\ root[j].tag = "channel")
                   => StrLe(LowerStr(root[i].id), LowerStr(root[j].id))
                /\ (root[i].tag = "programme" /\ root[j].tag = "programme")
                   => \/ StrLt(LowerStr(root[i].channel), LowerStr(root[j].channel))
                      \/ /\ LowerStr(root[i].channel) = LowerStr(root[j].channel)
                         /\ StrLe(root[i].start, root[j].start)

\* C6 witness: 'B' was collected before 'a', a programme was collected too,
\* and the document is written.
C6_Witness ==
    /\ pc = "done"
    /\ Len(channel_section_xml) = 2
    /\ channel_section_xml[1].id = <<66>>
    /\ channel_section_xml[2].id = <<97>>
    /\ programm_section_xml # <<>>
    /\ Len(root) = 3

\* What C7 says parse_source returns: N when the text after the last '=' is
\* a non-negative integer N, 48 otherwise.
ClaimedTimeFrame(line) ==
    LET tail == Strip(AfterLastEq(line))
    IN  IF Len(tail) > 0 /\ \A i \in 1..Len(tail) : IsDigit(tail[i])
        THEN DigitsValue(tail)
        ELSE 48

\* C7: parse_source returns the non-negative integer after the last '=' of
\* the first line (0 included), and 48 in every other case.
C7_TimeFrameAsClaimed ==
    pc = "loop" => time_frame = ClaimedTimeFrame(first_line)

\* C8: a feed that fails soft contributes nothing and never keeps the run
\* from its end: with such a feed in the list the run does not abort.
C8_SoftFailureNeverAborts ==
    \A i \in 1..Len(log) :
        log[i].outcome \in SoftOutcomes =>
            /\ \A e \in Range(channel_section_xml) : e.src # i
            /\ \A p \in Range(programm_section_xml) : p.src # i
            /\ pc # "crashed"

\* C9 as stated: re-extracting the merged document yields the channel
\* elements and the programme elements of the document.
C9_RoundTripAsStated ==
    pc = "reextracted" =>
        /\ Range(reextract.channels) = Range(RootChannels)
        /\ Range(reextract.programmes) = Range(RootProgrammes)

\* C9 amended: re-extracting the merged document yields its channel elements
\* and those of its programme elements whose channel is the id of one of its
\* channel elements.
C9_RoundTripOfListedChannels ==
    pc = "reextracted" =>
        /\ reextract.outcome = "extracted"
        /\ Range(reextract.channels) = Range(RootChannels)
        /\ Range(reextract.programmes) =
               {p \in Range(RootProgrammes) :
                   \E e \in Range(RootChannels) : e.id = p.channel}

\* C9 witness: a document with a channel, a programme of that channel whose
\* start does not parse and a programme without a channel element was
\* re-extracted.
C9_Witness ==
    /\ pc = "reextracted"
    /\ RootChannels # <<>>
    /\ \E p \in Range(reextract.programmes) : ~Truth(p.start).parses
    /\ \E p \in Range(RootProgrammes) :
           \A e \in Range(RootChannels) : e.id # p.channel

\* C10: a feed with several channel elements for one requested id gives its
\* first such element only, and the feed is extracted to its end.
C10_FirstDuplicateOnly ==
    \A i \in 1..Len(log) :
        \A m, n \in 1..Len(log[i].tree.channels) :
            LET first == log[i].tree.channels[m]
                later == log[i].tree.channels[n]
            IN  (/\ m < n
                 /\ first.id = later.id
                 /\ InList(first.id, log[i].channel_to_process))
                => /\ log[i].outcome = "extracted"
                   /\ later \notin Range(channel_section_xml)

====
